---- MODULE Spec2Model ----
(***************************************************************************)
(* Model of the btree storage engine of lbadd (package lbadd, btree.go)    *)
(* and of the token lookahead of its SQL parser (package parser,           *)
(* simple_parser.go).                                                      *)
(*                                                                         *)
(* Nodes live in a heap `nodes` (a sequence of node records); a *node is   *)
(* an index into it and 0 is the nil pointer.  Slice indices are kept      *)
(* 0-based as in the Go source; At(s, i) reads element i of a slice.       *)
(* A Go run-time panic (index out of range, slice bounds out of range,     *)
(* nil dereference, explicit panic) ends the program: the model records    *)
(* it in `panicked`, keeps the mutations made before the panic, and takes  *)
(* no further step.                                                        *)
(***************************************************************************)
EXTENDS Integers, Sequences, FiniteSets, TLC

(* ---- bounds of the model ---- *)
(* MaxKey, MaxVal: keys and values of the calls; MaxOrder: largest order;  *)
(* MaxOps: number of insert and remove calls; MaxLen: longest slice given  *)
(* to a stand-alone search or split; MaxAscOrder, MaxAscOps: largest order *)
(* and number of calls of the ascending build; MaxGrowOps: number of calls *)
(* of the short ascending build; MaxLimit: largest limit of a range scan;  *)
(* MaxScanOps: number of insert and remove calls before a range scan;      *)
(* MaxSplits: number of stand-alone split calls in a row; MaxToks: tokens  *)
(* of a stream before its EOF token; MaxErrs: errors an errorReporter      *)
(* collects before the model stops following the call; MaxStmtToks: tokens *)
(* of a stream given to the statement parser before its EOF token.         *)
MaxKey == 4
MaxVal == 2
MaxOrder == 3
MaxLen == 4
MaxOps == 4
MaxAscOrder == 5
MaxAscOps == 9
MaxGrowOps == 6
MaxLimit == 1
MaxScanOps == 2
MaxSplits == 2
MaxToks == 3
MaxErrs == 5
MaxStmtToks == 3

(* ---- program constants ---- *)
defaultOrder == 3

Keys == 1..MaxKey
Values == 1..MaxVal
Orders == defaultOrder..MaxOrder
AscOrders == defaultOrder..MaxAscOrder
Limits == -1..MaxLimit
NilValue == 0
NilNode == 0

VARIABLES
    nodes,      \* heap of node structs: [parent, entries, children]
    root,       \* btree.root (0 = nil)
    size,       \* btree.size
    order,      \* btree.order
    panicked,   \* TRUE once an operation has panicked
    ret,        \* the last public call and what it returned
    lastOp,     \* history: per key, the most recent insert or remove call
                \* (NotTracked when the history is not recorded)
    nops,       \* number of insert and remove calls made so far
    sEntries,   \* argument of a stand-alone search call
    sKey,       \* argument of a stand-alone search call
    sRes,       \* result of a stand-alone search call
    toks,       \* the token stream of the scanner (token types)
    pos,        \* number of tokens the scanner has handed out
    errs,       \* errorReporter.errs
    sealed,     \* errorReporter.sealed
    lpc,        \* position of the running call of simpleParser.lookahead
    lnext,      \* lookahead's result variable next (NoToken = nil)
    lok,        \* lookahead's result variable ok
    nret        \* the last call of simpleParser.Next: whether it has returned,
                \* its result ok, and the scanner position it started from

parserVars == <<toks, pos, errs, sealed, lpc, lnext, lok, nret>>

vars == <<nodes, root, size, order, panicked, ret, lastOp, nops, sEntries, sKey, sRes,
          parserVars>>


(* ---- data model ---- *)
entry(k, v) == [key |-> k, value |-> v]
node(p, es, cs) == [parent |-> p, entries |-> es, children |-> cs]
At(s, i) == s[i + 1]
NoEntry == entry(0, NilValue)
NoRet == [op |-> "none", key |-> 0, value |-> NilValue, ok |-> FALSE,
          result |-> NoEntry, recvLen |-> -1, high |-> 0, limit |-> 0, list |-> <<>>]

(* ceil(order / 2) as computed by int(math.Ceil(float64(order)/2.0)) *)
ceilHalf(o) == (o + 1) \div 2

(* ---- search ---- *)
RECURSIVE searchLoop(_, _, _, _)
searchLoop(entries, k, low, high) ==
    IF low <= high
    THEN LET mid == (high + low) \div 2
             entryKey == At(entries, mid).key
         IN  IF k > entryKey THEN searchLoop(entries, k, mid + 1, high)
             ELSE IF k < entryKey THEN searchLoop(entries, k, low, mid - 1)
             ELSE [index |-> mid + 1, exists |-> TRUE]
    ELSE [index |-> low, exists |-> FALSE]

search(entries, k) == searchLoop(entries, k, 0, Len(entries) - 1)

(* ---- node predicates ---- *)
isLeaf(n) == Len(n.children) = 0
isFull(n, o) == Len(n.entries) >= o
canSteal(n, o) == Len(n.entries) > ceilHalf(o)
isUnderflowed(n, o) == Len(n.entries) < ceilHalf(o)
canSplit(n, o) == Len(n.entries) >= 2 * ceilHalf(o)

(* ---- split ---- *)
(* Allocates left, right and the returned node; n itself is not changed.   *)
split(h, n) ==
    IF Len(h[n].entries) = 0
    THEN [nodes |-> h, node |-> n]
    ELSE LET es    == h[n].entries
             mid   == Len(es) \div 2
             l     == Len(h) + 1
             r     == Len(h) + 2
             top   == Len(h) + 3
             left  == node(n, SubSeq(es, 1, mid), <<>>)
             right == node(n, SubSeq(es, mid + 1, Len(es)), <<>>)
             new   == node(h[n].parent,
                           <<entry(At(es, mid).key, NilValue)>>,
                           h[n].children \o <<l, r>>)
         IN  [nodes |-> h \o <<left, right, new>>, node |-> top]

(* ---- get ---- *)
NotFound == [result |-> NoEntry, exists |-> FALSE, panic |-> FALSE]
Panic == [result |-> NoEntry, exists |-> FALSE, panic |-> TRUE]

RECURSIVE getNode(_, _, _)
getNode(h, n, k) ==
    LET nd == h[n]
        s  == search(nd.entries, k)
        i  == s.index
    IN  IF s.exists
        THEN IF i < Len(nd.entries)
             THEN [result |-> At(nd.entries, i), exists |-> TRUE, panic |-> FALSE]
             ELSE Panic                       \* node.entries[i]: index out of range
        ELSE IF i > Len(nd.children) THEN NotFound
        ELSE IF i < Len(nd.children) THEN getNode(h, At(nd.children, i), k)
        ELSE Panic                            \* node.children[i]: index out of range

get(b, k) ==
    IF b.root = NilNode \/ Len(b.nodes[b.root].entries) = 0
    THEN NotFound
    ELSE getNode(b.nodes, b.root, k)

(* ---- insert ---- *)
insRes(b, inserted, panic, recvLen) ==
    [b |-> b, inserted |-> inserted, panic |-> panic, recvLen |-> recvLen]

(* the root of insertNode is split when full; `node` keeps naming n *)
splitRoot(b, n, o) ==
    IF n = b.root /\ isFull(b.nodes[n], o)
    THEN LET sp == split(b.nodes, n)
         IN  [b EXCEPT !.nodes = sp.nodes, !.root = sp.node]
    ELSE b

(* the entry exists: node.entries[idx] = entry *)
updateEntry(b, n, idx, e) ==
    IF idx < Len(b.nodes[n].entries)
    THEN insRes([b EXCEPT !.nodes[n].entries[idx + 1] = e], FALSE, FALSE, -1)
    ELSE insRes(b, FALSE, TRUE, -1)           \* index out of range

(* insertLeaf without the size increment *)
insertLeafNoCount(b, n, idx, e) ==
    LET es == b.nodes[n].entries
    IN  [b EXCEPT !.nodes[n].entries =
                      SubSeq(es, 1, idx) \o <<e>> \o SubSeq(es, idx + 1, Len(es))]

(* the node is a leaf: the entry is placed at idx and size is incremented *)
insertLeaf(b, n, idx, e) ==
    LET es == b.nodes[n].entries
    IN  [b EXCEPT !.nodes[n].entries =
                      SubSeq(es, 1, idx) \o <<e>> \o SubSeq(es, idx + 1, Len(es)),
                  !.size = b.size + 1]

(* the child to descend into is split when full and replaced in n.children *)
splitChild(b, n, idx, o) ==
    LET c == At(b.nodes[n].children, idx)
    IN  IF isFull(b.nodes[c], o)
        THEN LET sp == split(b.nodes, c)
             IN  [b EXCEPT !.nodes = [sp.nodes EXCEPT ![n].children[idx + 1] = sp.node]]
        ELSE b

RECURSIVE insertNode(_, _, _, _)
insertNode(b, n, e, o) ==
    LET b1  == splitRoot(b, n, o)
        nd  == b1.nodes[n]
        s   == search(nd.entries, e.key)
        idx == s.index
    IN  IF s.exists THEN updateEntry(b1, n, idx, e)
        ELSE IF isLeaf(nd)
             THEN insRes(insertLeaf(b1, n, idx, e), TRUE, FALSE, Len(nd.entries))
        ELSE IF idx >= Len(nd.children)
             THEN insRes(b1, FALSE, TRUE, -1)  \* node.children[idx]: out of range
        ELSE LET b2 == splitChild(b1, n, idx, o)
             IN  insertNode(b2, At(b2.nodes[n].children, idx), e, o)

insert(b, k, v, o) ==
    IF b.root = NilNode
    THEN insRes([nodes |-> b.nodes \o <<node(NilNode, <<entry(k, v)>>, <<>>)>>,
                 root  |-> Len(b.nodes) + 1,
                 size  |-> b.size + 1], TRUE, FALSE, 0)
    ELSE insertNode(b, b.root, entry(k, v), o)

(* ---- remove ---- *)
remRes(b, removed, panic) == [b |-> b, removed |-> removed, panic |-> panic]

(* node.entries = append(node.entries[:idx], node.entries[idx+1:]...); size-- *)
removeEntry(b, n, idx) ==
    LET es == b.nodes[n].entries
    IN  [b EXCEPT !.nodes[n].entries = SubSeq(es, 1, idx) \o SubSeq(es, idx + 2, Len(es)),
                  !.size = b.size - 1]

(* the underflow branch of removeNode *)
underflow(b, n, k, o) ==
    LET h == b.nodes
        p == h[n].parent
    IN  IF p = NilNode THEN remRes(b, FALSE, TRUE)          \* nil dereference
        ELSE
        LET parIdx == search(h[p].entries, k).index
            pcs    == h[p].children
        IN  IF parIdx >= Len(pcs) THEN remRes(b, FALSE, TRUE)   \* out of range
            ELSE IF canSteal(h[At(pcs, parIdx)], o)
                 THEN remRes(b, FALSE, TRUE)   \* panic("can steal from left sibling")
            ELSE IF parIdx + 1 >= Len(pcs) THEN remRes(b, FALSE, TRUE)
            ELSE LET rLeaf == At(pcs, parIdx + 1)
                 IN  IF canSteal(h[rLeaf], o)
                     THEN LET h1 == [h EXCEPT ![n].entries =
                                         Append(@, At(h[rLeaf].entries, 0))]
                              h2 == [h1 EXCEPT ![rLeaf].entries = Tail(@)]
                          IN  remRes([b EXCEPT !.nodes = h2], TRUE, FALSE)
                     ELSE remRes(b, TRUE, FALSE)

RECURSIVE removeNode(_, _, _, _)
removeNode(b, n, k, o) ==
    LET nd  == b.nodes[n]
        s   == search(nd.entries, k)
        idx == s.index
    IN  IF ~isLeaf(nd)
        THEN IF idx < Len(nd.children)
             THEN removeNode(b, At(nd.children, idx), k, o)
             ELSE remRes(b, FALSE, TRUE)       \* node.children[idx]: out of range
        ELSE IF ~s.exists THEN remRes(b, FALSE, FALSE)
        ELSE IF idx + 1 > Len(nd.entries)
             THEN remRes(b, FALSE, TRUE)       \* node.entries[idx+1:]: out of range
        ELSE LET b1 == removeEntry(b, n, idx)
             IN  IF isUnderflowed(b1.nodes[n], o)
                 THEN underflow(b1, n, k, o)
                 ELSE remRes(b1, TRUE, FALSE)

(* remove that counts a removal before the key has been found *)
removeCountingMisses(b, k, o) ==
    IF b.root = NilNode THEN remRes(b, FALSE, FALSE)
    ELSE LET r == removeNode(b, b.root, k, o)
         IN  [r EXCEPT !.b.size = b.size - 1]

remove(b, k, o) ==
    IF b.root = NilNode THEN remRes(b, FALSE, FALSE)
    ELSE removeNode(b, b.root, k, o)

(* ---- range scans ---- *)
scanRes(list, panic) == [list |-> list, panic |-> panic]

(* getAll without the size check *)
getAllNoSizeCheck(b, limit) ==
    IF limit = 0 THEN scanRes(<<>>, FALSE) ELSE scanRes(<<>>, TRUE)

getAll(b, limit) ==
    IF b.size = 0 \/ limit = 0
    THEN scanRes(<<>>, FALSE)
    ELSE scanRes(<<>>, TRUE)                  \* panic("unimplemented")

getAbove(b, k, limit) == scanRes(<<>>, TRUE)           \* panic("unimplemented")
getBelow(b, k, limit) == scanRes(<<>>, TRUE)           \* panic("unimplemented")
getBetween(b, low, high, limit) == scanRes(<<>>, TRUE) \* panic("unimplemented")

(* ---- the program as a state machine ---- *)
Btree == [nodes |-> nodes, root |-> root, size |-> size]

(* newBtree / newBtreeOrder: the tree a constructor returns *)
newBtreeOrder(o) ==
    /\ nodes = <<>>
    /\ root = NilNode
    /\ size = 0
    /\ order = o
    /\ panicked = FALSE
    /\ ret = NoRet
    /\ nops = 0

NotTracked == [k \in {0} |-> [kind |-> "off", value |-> NilValue]]
record(k, kind, v) ==
    IF 0 \in DOMAIN lastOp THEN lastOp
    ELSE (k :> [kind |-> kind, value |-> v]) @@ lastOp

NoSearch ==
    /\ sEntries = <<>>
    /\ sKey = 0
    /\ sRes = [index |-> -1, exists |-> FALSE]

(* no parser at work *)
NoToken == "nil"
NoCall == [state |-> "none", ok |-> FALSE, from |-> 0]
NoParser ==
    /\ toks = <<>>
    /\ pos = 0
    /\ errs = <<>>
    /\ sealed = FALSE
    /\ lpc = "idle"
    /\ lnext = NoToken
    /\ lok = FALSE
    /\ nret = NoCall

Init ==
    /\ \E o \in Orders : newBtreeOrder(o)
    /\ lastOp = NotTracked
    /\ NoSearch
    /\ NoParser

Insert(k, v) ==
    /\ ~panicked
    /\ LET r == insert(Btree, k, v, order)
       IN  /\ nodes' = r.b.nodes
           /\ root' = r.b.root
           /\ size' = r.b.size
           /\ panicked' = r.panic
           /\ ret' = [op |-> "insert", key |-> k, value |-> v, ok |-> r.inserted,
                      result |-> NoEntry, recvLen |-> r.recvLen,
                      high |-> 0, limit |-> 0, list |-> <<>>]
           /\ lastOp' = IF r.panic THEN lastOp ELSE record(k, "insert", v)
    /\ nops' = nops + 1
    /\ UNCHANGED <<order, sEntries, sKey, sRes,
                 parserVars>>

Remove(k) ==
    /\ ~panicked
    /\ LET r == remove(Btree, k, order)
       IN  /\ nodes' = r.b.nodes
           /\ root' = r.b.root
           /\ size' = r.b.size
           /\ panicked' = r.panic
           /\ ret' = [op |-> "remove", key |-> k, value |-> NilValue, ok |-> r.removed,
                      result |-> NoEntry, recvLen |-> -1,
                      high |-> 0, limit |-> 0, list |-> <<>>]
           /\ lastOp' = IF r.panic THEN lastOp
                        ELSE record(k, IF r.removed THEN "removed" ELSE "absent",
                                    NilValue)
    /\ nops' = nops + 1
    /\ UNCHANGED <<order, sEntries, sKey, sRes,
                 parserVars>>

Get(k) ==
    /\ ~panicked
    /\ LET r == get(Btree, k)
       IN  /\ panicked' = r.panic
           /\ ret' = [op |-> "get", key |-> k, value |-> NilValue, ok |-> r.exists,
                      result |-> r.result, recvLen |-> -1,
                      high |-> 0, limit |-> 0, list |-> <<>>]
    /\ UNCHANGED <<nodes, root, size, order, lastOp, nops, sEntries, sKey, sRes,
                 parserVars>>

(* a range scan: it changes nothing but the record of the call *)
Scan(op, k, high, limit, r) ==
    /\ ~panicked
    /\ panicked' = r.panic
    /\ ret' = [op |-> op, key |-> k, value |-> NilValue, ok |-> FALSE,
               result |-> NoEntry, recvLen |-> -1,
               high |-> high, limit |-> limit, list |-> r.list]
    /\ UNCHANGED <<nodes, root, size, order, lastOp, nops, sEntries, sKey, sRes,
                 parserVars>>

GetAll(limit) == Scan("getAll", 0, 0, limit, getAll(Btree, limit))
GetAbove(k, limit) == Scan("getAbove", k, 0, limit, getAbove(Btree, k, limit))
GetBelow(k, limit) == Scan("getBelow", k, 0, limit, getBelow(Btree, k, limit))
GetBetween(low, high, limit) ==
    Scan("getBetween", low, high, limit, getBetween(Btree, low, high, limit))

(* any sequence of at most MaxOps insert and remove calls, with get calls   *)
(* in between, keys and values drawn from Keys and Values                  *)
Next ==
    \/ \E k \in Keys, v \in Values : nops < MaxOps /\ Insert(k, v)
    \/ \E k \in Keys : nops < MaxOps /\ Remove(k)
    \/ \E k \in Keys : Get(k)

(* the storage interface with its range scans: at most MaxScanOps insert   *)
(* and remove calls, with get calls and range scans in between, limits     *)
(* drawn from Limits                                                       *)
NextScan ==
    \/ \E k \in Keys, v \in Values : nops < MaxScanOps /\ Insert(k, v)
    \/ \E k \in Keys : nops < MaxScanOps /\ Remove(k)
    \/ \E k \in Keys : Get(k)
    \/ \E l \in Limits : GetAll(l)
    \/ \E k \in Keys, l \in Limits : GetAbove(k, l)
    \/ \E k \in Keys, l \in Limits : GetBelow(k, l)
    \/ \E low \in Keys, high \in Keys, l \in Limits : GetBetween(low, high, l)

Spec == Init /\ [][Next]_vars

SpecScan == Init /\ [][NextScan]_vars

(* the same program with the history of calls recorded in lastOp *)
InitHist ==
    /\ \E o \in Orders : newBtreeOrder(o)
    /\ lastOp = <<>>
    /\ NoSearch
    /\ NoParser

SpecHist == InitHist /\ [][Next]_vars

(* a tree built by inserting the keys 1, 2, 3, ... in ascending order (the  *)
(* key of a call is its position in the call sequence), followed by remove *)
(* calls; orders up to MaxAscOrder                                         *)
InitAsc ==
    /\ \E o \in AscOrders : newBtreeOrder(o)
    /\ lastOp = NotTracked
    /\ NoSearch
    /\ NoParser

AscInsert ==
    /\ nops < MaxAscOps
    /\ ret.op \in {"none", "insert"}
    /\ \E v \in Values : Insert(nops + 1, v)

AscRemove ==
    /\ nops < MaxAscOps
    /\ \E k \in 1..MaxAscOps : Remove(k)

NextAsc == AscInsert \/ AscRemove

SpecAsc == InitAsc /\ [][NextAsc]_vars

(* the same ascending build on the orders of Orders, with at most         *)
(* MaxGrowOps calls: trees whose root has been split, and removes on them  *)
GrowInsert ==
    /\ nops < MaxGrowOps
    /\ ret.op \in {"none", "insert"}
    /\ \E v \in Values : Insert(nops + 1, v)

GrowRemove ==
    /\ nops < MaxGrowOps
    /\ \E k \in 1..MaxGrowOps : Remove(k)

NextGrow == GrowInsert \/ GrowRemove

SpecGrow == Init /\ [][NextGrow]_vars

(* a stand-alone call of search on an ascending, duplicate-free slice *)
AscendingSeqs ==
    {s \in UNION {[1..n -> Keys] : n \in 0..MaxLen} :
        \A i \in 1..Len(s) : \A j \in 1..Len(s) : i < j => s[i] < s[j]}

InitSearch ==
    /\ newBtreeOrder(defaultOrder)
    /\ lastOp = NotTracked
    /\ \E s \in AscendingSeqs : sEntries = [i \in 1..Len(s) |-> entry(s[i], 1)]
    /\ sKey \in 0..(MaxKey + 1)
    /\ sRes = [index |-> -1, exists |-> FALSE]
    /\ NoParser

CallSearch ==
    /\ sRes.index = -1
    /\ sRes' = search(sEntries, sKey)
    /\ UNCHANGED <<nodes, root, size, order, panicked, ret, lastOp, nops, sEntries, sKey,
                 parserVars>>

SpecSearch == InitSearch /\ [][CallSearch]_vars

(* ---- derived views of the tree ---- *)
(* a stand-alone call of split: on a leaf of ascending entries that is the *)
(* root, and then on the node that split returned                          *)
SplitInputs ==
    UNION {{[i \in 1..Len(s) |-> entry(s[i], vs[i])] : vs \in [1..Len(s) -> Values]} :
           s \in AscendingSeqs \ {<<>>}}

InitSplit ==
    /\ \E es \in SplitInputs : nodes = <<node(NilNode, es, <<>>)>>
    /\ root = 1
    /\ size = Len(nodes[1].entries)
    /\ order = defaultOrder
    /\ panicked = FALSE
    /\ ret = NoRet
    /\ nops = 0
    /\ lastOp = NotTracked
    /\ NoSearch
    /\ NoParser

(* b.root = node.split() *)
CallSplit ==
    /\ nops < MaxSplits
    /\ LET sp == split(nodes, root)
       IN  /\ nodes' = sp.nodes
           /\ root' = sp.node
    /\ ret' = [NoRet EXCEPT !.op = "split", !.key = root]
    /\ nops' = nops + 1
    /\ UNCHANGED <<size, order, panicked, lastOp, sEntries, sKey, sRes,
                 parserVars>>

SpecSplit == InitSplit /\ [][CallSplit]_vars

(* ---- the parser's lookahead (package parser, simple_parser.go) ---- *)
(* A token is modelled by its type; Other stands for every type that       *)
(* lookahead does not test for.                                            *)
TokenTypes == {"Error", "EOF", "StatementSeparator", "Other"}

(* what a scanner hands out: tokens ended by one EOF token, or nothing     *)
(* more once that EOF token has been handed out                            *)
TokenStreams ==
    {<<>>} \cup
    {body \o <<"EOF">> :
        body \in UNION {[1..n -> TokenTypes \ {"EOF"}] : n \in 0..MaxToks}}

(* scanner.Scanner: HasNext, Peek and Next on the stream ts with p tokens  *)
(* handed out.  What Next does when HasNext is false is not fixed by the   *)
(* parser: it may hand out nothing and leave the scanner as it is, or it   *)
(* may panic.                                                              *)
scannerHasNext(ts, p) == p < Len(ts)
scannerPeek(ts, p) == At(ts, p)
scannerNext(ts, p) ==
    IF scannerHasNext(ts, p)
    THEN {[pos |-> p + 1, panic |-> FALSE]}
    ELSE {[pos |-> p, panic |-> FALSE], [pos |-> p, panic |-> TRUE]}

unsafeLowLevelLookahead(ts, p) ==
    IF ~scannerHasNext(ts, p)
    THEN [next |-> NoToken, hasNext |-> FALSE]
    ELSE [next |-> scannerPeek(ts, p), hasNext |-> TRUE]

consumeToken(ts, p) == scannerNext(ts, p)

(* errorReporter: each report appends one error *)
errorf(es, err) == Append(es, err)
errorToken(es) == errorf(es, "ErrScanner")
prematureEOF(es) == errorf(es, "ErrPrematureEOF")
incompleteStatement(es) == errorf(es, "ErrIncompleteStatement")

(* the variables of the storage engine, which the parser does not touch *)
storageVars == <<nodes, root, size, order, ret, lastOp, nops, sEntries, sKey, sRes>>

(* a call of lookahead on a scanner that has handed out nothing yet and a  *)
(* fresh errorReporter                                                     *)
InitLookahead ==
    /\ newBtreeOrder(defaultOrder)
    /\ lastOp = NotTracked
    /\ NoSearch
    /\ toks \in TokenStreams
    /\ pos = 0
    /\ errs = <<>>
    /\ sealed = FALSE
    /\ lpc = "idle"
    /\ lnext = NoToken
    /\ lok = FALSE
    /\ nret = NoCall

(* next, ok = p.unsafeLowLevelLookahead() *)
LookaheadCall ==
    /\ ~panicked
    /\ lpc = "idle"
    /\ LET l == unsafeLowLevelLookahead(toks, pos)
       IN  /\ lnext' = l.next
           /\ lok' = l.hasNext
    /\ lpc' = "drain"
    /\ UNCHANGED <<toks, pos, errs, sealed, nret, panicked, storageVars>>

(* one iteration of the loop for ok && next.Type() == token.Error: next    *)
(* and ok are not assigned in it                                           *)
LookaheadDrain ==
    /\ ~panicked
    /\ lpc = "drain"
    /\ lok /\ lnext = "Error"
    /\ Len(errs) < MaxErrs
    /\ errs' = errorToken(errs)
    /\ \E c \in consumeToken(toks, pos) :
           /\ pos' = c.pos
           /\ panicked' = c.panic
    /\ UNCHANGED <<toks, sealed, lpc, lnext, lok, nret, storageVars>>

(* the loop is left: the tests on ok and next.Type(), and the return *)
LookaheadReturn ==
    /\ ~panicked
    /\ lpc = "drain"
    /\ ~(lok /\ lnext = "Error")
    /\ IF ~lok \/ lnext = "EOF"
       THEN /\ errs' = prematureEOF(errs)
            /\ sealed' = TRUE
            /\ lok' = FALSE
       ELSE IF lnext = "StatementSeparator"
       THEN /\ errs' = incompleteStatement(errs)
            /\ lok' = FALSE
            /\ UNCHANGED sealed
       ELSE UNCHANGED <<errs, sealed, lok>>
    /\ lpc' = "done"
    /\ UNCHANGED <<toks, pos, lnext, nret, panicked, storageVars>>

NextLookahead ==
    \/ LookaheadCall
    \/ LookaheadDrain
    \/ LookaheadReturn

SpecLookahead == InitLookahead /\ [][NextLookahead]_vars

(* ---- the statement parser (package parser, simple_parser.go) ---- *)
(* The token types the statement parser tests for.  KeywordSelect stands   *)
(* for the keywords that start a statement the parser does not support     *)
(* (ANALYZE, ATTACH, ..., SELECT, UPDATE, VACUUM), Period for a token      *)
(* whose value is ".", Other for every token that starts no statement.     *)
StmtTokenTypes ==
    {"Error", "EOF", "StatementSeparator",
     "KeywordExplain", "KeywordQuery", "KeywordPlan",
     "KeywordAlter", "KeywordPragma", "KeywordSelect",
     "KeywordTable", "KeywordRename", "KeywordTo", "KeywordColumn", "KeywordAdd",
     "Literal", "Period", "Other"}

(* the tokens that initiate a statement, as parseSQLStatement lists them *)
StatementStart ==
    {"StatementSeparator", "EOF", "KeywordAlter", "KeywordPragma", "KeywordSelect"}

(* A running call of Next is the state st it has reached: the scanner      *)
(* position, the errors and the seal of its errorReporter, and halt, which *)
(* tells why the call cannot go on: "panic" (a run-time panic), "hang"     *)
(* (lookahead's drain loop, which does not end once it is entered), "past" *)
(* (scanner.Next called without a next token).  A halted call takes no     *)
(* further step.                                                           *)
parserState(p) == [pos |-> p, errs |-> <<>>, sealed |-> FALSE, halt |-> "no"]
halted(st) == st.halt # "no"

(* p.consumeToken() *)
consume(ts, st) ==
    IF halted(st) THEN st
    ELSE IF scannerHasNext(ts, st.pos)
    THEN [st EXCEPT !.pos = @ + 1]
    ELSE [st EXCEPT !.halt = "past"]

(* r.unexpectedToken(...) *)
unexpectedToken(ts, st) ==
    IF halted(st) \/ st.sealed THEN st
    ELSE LET l == unsafeLowLevelLookahead(ts, st.pos)
         IN  IF ~l.hasNext \/ l.next = "EOF"
             THEN [st EXCEPT !.errs = errorf(@, "ErrPrematureEOF"), !.sealed = TRUE]
             ELSE [st EXCEPT !.errs = errorf(@, "ErrUnexpectedToken")]

(* r.unsupportedConstruct(t) *)
unsupportedConstruct(st) ==
    IF halted(st) THEN st
    ELSE [st EXCEPT !.errs = errorf(@, "ErrUnsupportedConstruct")]

(* a whole call of lookahead: the state it leaves and its results *)
lookahead(ts, st) ==
    LET l == unsafeLowLevelLookahead(ts, st.pos)
    IN  IF halted(st) THEN [st |-> st, next |-> NoToken, ok |-> FALSE]
        ELSE IF l.hasNext /\ l.next = "Error"
        THEN [st |-> [st EXCEPT !.errs = errorToken(@), !.halt = "hang"],
              next |-> l.next, ok |-> FALSE]
        ELSE IF ~l.hasNext \/ l.next = "EOF"
        THEN [st |-> [st EXCEPT !.errs = prematureEOF(@), !.sealed = TRUE],
              next |-> l.next, ok |-> FALSE]
        ELSE IF l.next = "StatementSeparator"
        THEN [st |-> [st EXCEPT !.errs = incompleteStatement(@)],
              next |-> l.next, ok |-> FALSE]
        ELSE [st |-> st, next |-> l.next, ok |-> TRUE]

lookaheadWithType(ts, st, typ) ==
    LET r == lookahead(ts, st)
    IN  [r EXCEPT !.ok = r.ok /\ r.next = typ]

RECURSIVE searchNext(_, _, _)
searchNext(ts, st, types) ==
    LET l == unsafeLowLevelLookahead(ts, st.pos)
    IN  IF halted(st) \/ ~l.hasNext \/ l.next \in types THEN st
        ELSE searchNext(ts, consume(ts, unexpectedToken(ts, st)), types)

RECURSIVE skipUntil(_, _, _)
skipUntil(ts, st, types) ==
    LET l == unsafeLowLevelLookahead(ts, st.pos)
    IN  IF halted(st) \/ ~l.hasNext \/ l.next \in types THEN st
        ELSE skipUntil(ts, consume(ts, st), types)

(* parseColumnDef: panic("implement me") *)
parseColumnDef(st) ==
    IF halted(st) THEN st ELSE [st EXCEPT !.halt = "panic"]

(* parseAlterTableStmt, case token.Literal of the switch after RENAME: st   *)
(* is the state in which the column name is the next token                 *)
renameColumn(ts, st) ==
    LET h == lookahead(ts, consume(ts, st))
    IN  IF ~h.ok THEN h.st
        ELSE IF h.next # "KeywordTo" THEN consume(ts, unexpectedToken(ts, h.st))
        ELSE LET i == lookahead(ts, consume(ts, h.st))
             IN  IF ~i.ok THEN i.st
                 ELSE IF i.next # "Literal"
                 THEN consume(ts, unexpectedToken(ts, i.st))
                 ELSE consume(ts, i.st)

(* parseAlterTableStmt, case token.KeywordRename: st is the state after    *)
(* the RENAME token has been consumed                                      *)
alterRename(ts, st) ==
    LET f == lookahead(ts, st)
        g == lookahead(ts, consume(ts, f.st))
    IN  IF ~f.ok THEN f.st
        ELSE IF f.next = "KeywordTo"
        THEN IF ~g.ok THEN g.st
             ELSE IF g.next # "Literal"
             THEN consume(ts, unexpectedToken(ts, g.st))
             ELSE consume(ts, g.st)
        ELSE IF f.next = "KeywordColumn"
        THEN IF ~g.ok THEN g.st
             ELSE IF g.next # "Literal"
             THEN consume(ts, unexpectedToken(ts, g.st))
             ELSE renameColumn(ts, g.st)                  \* fallthrough
        ELSE IF f.next = "Literal" THEN renameColumn(ts, f.st)
        ELSE unexpectedToken(ts, f.st)

(* parseAlterTableStmt, case token.KeywordAdd: st is the state after the   *)
(* ADD token has been consumed                                             *)
alterAdd(ts, st) ==
    LET f == lookahead(ts, st)
        g == lookahead(ts, consume(ts, f.st))
    IN  IF ~f.ok THEN f.st
        ELSE IF f.next = "KeywordColumn"
        THEN IF ~g.ok THEN g.st
             ELSE IF g.next # "Literal"
             THEN consume(ts, unexpectedToken(ts, g.st))
             ELSE parseColumnDef(g.st)                    \* fallthrough
        ELSE IF f.next = "Literal" THEN parseColumnDef(f.st)
        ELSE unexpectedToken(ts, f.st)

(* parseAlterTableStmt from the lookahead after the table or schema name:  *)
(* st is the state after that literal has been consumed.  The switch tests *)
(* the variable next, which after a "." is still the "." token.            *)
alterAction(ts, st) ==
    LET d == lookahead(ts, st)
        e == lookahead(ts, consume(ts, d.st))
    IN  IF ~d.ok THEN d.st
        ELSE IF d.next = "Period"
        THEN IF ~e.ok THEN e.st
             ELSE IF e.next = "Literal" THEN consume(ts, e.st)
             ELSE e.st
        ELSE IF d.next = "KeywordRename" THEN alterRename(ts, consume(ts, d.st))
        ELSE IF d.next = "KeywordAdd" THEN alterAdd(ts, consume(ts, d.st))
        ELSE d.st

parseAlterTableStmt(ts, st) ==
    LET a == lookahead(ts, searchNext(ts, st, {"KeywordAlter"}))
        b == lookahead(ts, consume(ts, a.st))
        c == lookahead(ts, IF b.next = "KeywordTable"
                           THEN consume(ts, b.st)
                           ELSE unexpectedToken(ts, b.st))
    IN  IF ~a.ok THEN a.st
        ELSE IF ~b.ok THEN b.st
        ELSE IF ~c.ok THEN c.st
        ELSE IF c.next # "Literal" THEN unexpectedToken(ts, c.st)
        ELSE alterAction(ts, consume(ts, c.st))

(* parseSQLStatement, the optional EXPLAIN [QUERY PLAN] prefix *)
explainPrefix(ts, st) ==
    LET a == lookaheadWithType(ts, st, "KeywordExplain")
        b == lookaheadWithType(ts, consume(ts, a.st), "KeywordQuery")
        c == lookaheadWithType(ts, consume(ts, b.st), "KeywordPlan")
    IN  IF ~a.ok THEN a.st
        ELSE IF ~b.ok THEN b.st
        ELSE IF c.ok THEN consume(ts, c.st)
        ELSE unexpectedToken(ts, c.st)

(* parseSQLStatement, from the end of the statement to the return: st is   *)
(* the state after the switch on the first token of the statement          *)
statementEnd(ts, st) ==
    LET d == lookahead(ts, searchNext(ts, st, {"StatementSeparator", "EOF"}))
        e == IF d.next = "StatementSeparator"
             THEN lookahead(ts, consume(ts, d.st))
             ELSE d
    IN  IF ~d.ok THEN d.st
        ELSE IF ~e.ok THEN e.st
        ELSE IF e.next = "EOF" THEN consume(ts, e.st)
        ELSE e.st

parseSQLStatement(ts, st) ==
    LET s2 == searchNext(ts, explainPrefix(ts, st), StatementStart)
        l  == unsafeLowLevelLookahead(ts, s2.pos)
    IN  IF halted(s2) THEN s2
        ELSE IF ~l.hasNext
        THEN [s2 EXCEPT !.errs = incompleteStatement(@)]
        ELSE IF l.next = "KeywordAlter"
        THEN statementEnd(ts, parseAlterTableStmt(ts, s2))
        ELSE IF l.next = "StatementSeparator"
        THEN statementEnd(ts, consume(ts, [s2 EXCEPT !.errs = incompleteStatement(@)]))
        ELSE statementEnd(ts, skipUntil(ts, unsupportedConstruct(s2),
                                        {"StatementSeparator", "EOF"}))

(* what a scanner hands out for an input without an Error token: tokens    *)
(* ended by one EOF token                                                  *)
StatementStreams ==
    {body \o <<"EOF">> :
        body \in UNION {[1..n -> StmtTokenTypes \ {"Error", "EOF"}] : n \in 0..MaxStmtToks}}

(* a parser made by New, before the first call of Next *)
InitParser ==
    /\ newBtreeOrder(defaultOrder)
    /\ lastOp = NotTracked
    /\ NoSearch
    /\ toks \in StatementStreams
    /\ pos = 0
    /\ errs = <<>>
    /\ sealed = FALSE
    /\ lpc = "idle"
    /\ lnext = NoToken
    /\ lok = FALSE
    /\ nret = NoCall

(* a call of Next: without a next token it returns ok=false, otherwise it  *)
(* parses a statement with a fresh errorReporter and returns ok=true; a    *)
(* call that halts does not return                                         *)
CallNext ==
    /\ ~panicked
    /\ nret.state # "running"
    /\ LET st == IF ~scannerHasNext(toks, pos)
                 THEN parserState(pos)
                 ELSE parseSQLStatement(toks, parserState(pos))
       IN  /\ pos' = st.pos
           /\ errs' = st.errs
           /\ sealed' = st.sealed
           /\ nret' = [state |-> IF halted(st) THEN "running" ELSE "returned",
                       ok |-> scannerHasNext(toks, pos) /\ ~halted(st),
                       from |-> pos]
           /\ IF st.halt = "past" THEN panicked' \in BOOLEAN
              ELSE panicked' = (st.halt = "panic")
    /\ UNCHANGED <<toks, lpc, lnext, lok, storageVars>>

(* a caller that keeps calling Next *)
SpecParser == InitParser /\ [][CallNext]_vars

Range(s) == {s[i] : i \in 1..Len(s)}

RECURSIVE Subtree(_, _)
Subtree(h, n) == {n} \cup UNION {Subtree(h, c) : c \in Range(h[n].children)}

Reach == IF root = NilNode THEN {} ELSE Subtree(nodes, root)
KeysOf(n) == {e.key : e \in Range(nodes[n].entries)}
StoredKeys == UNION {KeysOf(n) : n \in Reach}

RECURSIVE LeafDepths(_, _, _)
LeafDepths(h, n, d) ==
    IF isLeaf(h[n]) THEN {d}
    ELSE UNION {LeafDepths(h, c, d + 1) : c \in Range(h[n].children)}

RECURSIVE SumLen(_, _)
SumLen(h, S) ==
    IF S = {} THEN 0
    ELSE LET n == CHOOSE x \in S : TRUE
         IN  Len(h[n].entries) + SumLen(h, S \ {n})

GetNow(k) == get(Btree, k)
GetNext(k) == get([nodes |-> nodes', root |-> root', size |-> size'], k)

(* a step is a call of insert (of remove): every call increments nops and  *)
(* leaves its name and arguments in ret                                     *)
InsertStep == nops' = nops + 1 /\ ret'.op = "insert"
RemoveStep == nops' = nops + 1 /\ ret'.op = "remove"
Found(k, v) == [result |-> entry(k, v), exists |-> TRUE, panic |-> FALSE]

(* ---- C1 ---- *)
(* C1: round trip.  For every key k whose most recent call was insert(k, v) *)
(* get(k) returns (entry{k, v}, true); for every key k whose most recent   *)
(* call was a remove(k) that returned true, get(k) returns exists = false. *)
C1_RoundTrip ==
    \A k \in DOMAIN lastOp :
        /\ lastOp[k].kind = "insert" => GetNow(k) = Found(k, lastOp[k].value)
        /\ lastOp[k].kind = "removed" => GetNow(k) = NotFound

(* ---- C2 ---- *)
(* C2: search over an ascending, duplicate-free slice returns (i, true)    *)
(* with entries[i].key = k when k is present, and otherwise (i, false)     *)
(* with i the number of entries whose key is less than k.                  *)
C2_SearchContract ==
    sRes.index # -1 =>
        IF \E e \in Range(sEntries) : e.key = sKey
        THEN /\ sRes.exists
             /\ sRes.index \in 0..(Len(sEntries) - 1)
             /\ At(sEntries, sRes.index).key = sKey
        ELSE /\ ~sRes.exists
             /\ sRes.index = Cardinality({i \in 1..Len(sEntries) : sEntries[i].key < sKey})

(* ---- C3 ---- *)
(* C3: upsert.  insert(k, v2) of a key k that is present completes, leaves *)
(* size unchanged, and a following get(k) returns (entry{k, v2}, true).    *)
C3_Upsert ==
    [][(InsertStep /\ ret'.key \in StoredKeys) =>
           /\ ~panicked'
           /\ size' = size
           /\ GetNext(ret'.key) = Found(ret'.key, ret'.value)]_vars

(* ---- C4 ---- *)
(* C4: size monotonicity.  insert of a key that is not stored increases    *)
(* size by exactly 1, insert of a stored key leaves size unchanged, and a  *)
(* remove that returns true decreases size by exactly 1.                   *)
C4_SizeSteps ==
    [][/\ InsertStep =>
            IF ret'.key \in StoredKeys THEN size' = size ELSE size' = size + 1
       /\ (RemoveStep /\ ret'.ok /\ ~panicked') => size' = size - 1]_vars

(* three new keys were inserted and a remove has returned true *)
C4_Witness ==
    /\ ~panicked
    /\ ret.op = "remove"
    /\ ret.ok
    /\ size = 2
    /\ nops = 4

(* ---- C5 ---- *)
(* C5: after any sequence of insert and remove calls, size equals the      *)
(* total number of entries held by the nodes reachable from the root.      *)
C5_SizeIsEntryCount ==
    ~panicked => size = SumLen(nodes, Reach)

(* ---- C6 ---- *)
(* C6: after any sequence of insert and remove calls all leaves of the     *)
(* tree are at the same depth from the root.                               *)
C6_LeavesSameDepth ==
    (~panicked /\ root # NilNode) => Cardinality(LeafDepths(nodes, root, 0)) = 1

(* ---- C7 ---- *)
(* C7: after any sequence of insert calls on a tree of order o no node     *)
(* reachable from the root holds more than o - 1 entries, and the leaf     *)
(* that receives a new entry is not full (holds fewer than o - 1 entries)  *)
(* at the moment of insertion.                                             *)
C7_AtMostOrderMinusOne ==
    /\ \A n \in Reach : Len(nodes[n].entries) <= order - 1
    /\ (ret.op = "insert" /\ ret.ok) => ret.recvLen < order - 1

(* ---- C8 ---- *)
(* C8: after any sequence of insert and remove calls on a tree of order o  *)
(* every node other than the root holds at least ceil(o/2) - 1 entries.    *)
C8_MinOccupancy ==
    ~panicked =>
        \A n \in Reach \ {root} : Len(nodes[n].entries) >= ceilHalf(order) - 1

(* ---- C9 ---- *)
SubtreeKeys(c) == UNION {KeysOf(m) : m \in Subtree(nodes, c)}

(* C9: every internal node with k entries has exactly k+1 children, its    *)
(* entries are strictly ascending by key, and every key in its i-th child  *)
(* subtree lies strictly between the keys of entry i-1 and entry i.        *)
C9_InternalNodesOrdered ==
    ~panicked =>
        \A n \in Reach :
            LET es == nodes[n].entries
                cs == nodes[n].children
            IN  ~isLeaf(nodes[n]) =>
                    /\ Len(cs) = Len(es) + 1
                    /\ \A i \in 1..(Len(es) - 1) : es[i].key < es[i + 1].key
                    /\ \A i \in 0..(Len(cs) - 1) : \A key \in SubtreeKeys(At(cs, i)) :
                           /\ (i > 0 /\ i - 1 < Len(es)) => At(es, i - 1).key < key
                           /\ i < Len(es) => key < At(es, i).key

(* ---- C10 ---- *)
(* C10: no key appears in more than one entry among all nodes reachable    *)
(* from the root.                                                          *)
C10_KeysUnique ==
    ~panicked =>
        \A n \in Reach : \A m \in Reach :
            \A i \in 1..Len(nodes[n].entries) : \A j \in 1..Len(nodes[m].entries) :
                nodes[n].entries[i].key = nodes[m].entries[j].key => (n = m /\ i = j)

(* ---- C11 ---- *)
(* C11: in every reachable state, remove(k) for a key k that no reachable  *)
(* node holds returns false and leaves the size, the structure of the tree *)
(* and every stored entry unchanged.                                       *)
C11_RemoveAbsent ==
    [][(RemoveStep /\ ret'.key \notin StoredKeys) =>
          /\ ~panicked'
          /\ ~ret'.ok
          /\ nodes' = nodes
          /\ root' = root
          /\ size' = size]_vars

(* a remove of an absent key has just returned on a tree whose root has    *)
(* been split                                                              *)
C11_Witness ==
    /\ ~panicked
    /\ ret.op = "remove"
    /\ ~ret.ok
    /\ ret.key \notin StoredKeys
    /\ root # NilNode
    /\ ~isLeaf(nodes[root])

(* ---- C12 ---- *)
(* C12: in every reachable state, get(k) for a key k that no reachable     *)
(* node holds completes without a run-time panic and reports exists=false, *)
(* whatever position k would take among the keys of the leaf it reaches.   *)
C12_GetAbsent ==
    ~panicked =>
        \A k \in Keys : k \notin StoredKeys => GetNow(k) = NotFound

(* ---- C13 ---- *)
(* C13: on a newly constructed, empty tree of any order, get(k) reports    *)
(* exists=false, remove(k) returns false and getAll(limit) returns an      *)
(* empty sequence for every limit, each without a run-time panic and       *)
(* leaving the tree empty with size 0.                                     *)
C13_EmptyTree ==
    [][root = NilNode =>
          /\ ret'.op \in {"get", "remove"} => (~panicked' /\ ~ret'.ok)
          /\ ret'.op = "getAll" => (~panicked' /\ ret'.list = <<>>)
          /\ ret'.op \in {"get", "remove", "getAll"} =>
                 (size = 0 /\ nodes' = nodes /\ root' = NilNode /\ size' = 0)]_vars

(* getAll with a positive limit has just returned on the empty tree *)
C13_Witness ==
    /\ root = NilNode
    /\ size = 0
    /\ ~panicked
    /\ ret.op = "getAll"
    /\ ret.limit > 0
    /\ ret.list = <<>>

(* get and remove have returned on the empty tree as well *)
C13_WitnessRemove ==
    /\ root = NilNode
    /\ size = 0
    /\ ~panicked
    /\ ret.op = "get"
    /\ nops > 0

(* ---- C14 ---- *)
(* C14: in every reachable state, a call of getAll, getAbove, getBelow or  *)
(* getBetween with limit = 0 returns an empty sequence at once, without a  *)
(* run-time panic, and does not mutate the tree.                           *)
C14_LimitZero ==
    [][(ret'.op \in {"getAll", "getAbove", "getBelow", "getBetween"} /\ ret'.limit = 0) =>
          /\ ~panicked'
          /\ ret'.list = <<>>
          /\ nodes' = nodes
          /\ root' = root
          /\ size' = size]_vars

(* ---- C15 ---- *)
(* the entries held by the nodes reachable from the root *)
StoredEntries == UNION {Range(nodes[n].entries) : n \in Reach}

(* list holds, in ascending key order, the first min(limit, n) of the      *)
(* stored entries whose key is in ks, n being the number of such keys      *)
FirstAscending(list, ks, limit) ==
    /\ Len(list) = (IF limit < Cardinality(ks) THEN limit ELSE Cardinality(ks))
    /\ \A i \in 1..Len(list) :
           /\ list[i] \in StoredEntries
           /\ list[i].key \in ks
           /\ Cardinality({j \in ks : j < list[i].key}) = i - 1

(* C15: for every reachable non-empty tree and every limit > 0,            *)
(* getBetween(low, high, limit) returns in ascending key order the first   *)
(* min(limit, n) stored entries with low <= key <= high, getAll(limit)     *)
(* returns the first min(limit, size) entries of the tree in ascending key *)
(* order, and neither mutates the tree.                                    *)
C15_ScanResults ==
    [][(size > 0 /\ ret'.limit > 0) =>
          /\ ret'.op = "getBetween" =>
                 /\ ~panicked'
                 /\ FirstAscending(ret'.list,
                                   {j \in StoredKeys : ret'.key <= j /\ j <= ret'.high},
                                   ret'.limit)
          /\ ret'.op = "getAll" =>
                 /\ ~panicked'
                 /\ FirstAscending(ret'.list, StoredKeys, ret'.limit)
          /\ ret'.op \in {"getBetween", "getAll"} =>
                 (nodes' = nodes /\ root' = root /\ size' = size)]_vars

(* ---- C16 ---- *)
(* C16: remove(k) of a key stored in a root that is a leaf removes that    *)
(* entry and returns true, without rebalancing and without a run-time      *)
(* panic, whatever number of entries is left in the root.                  *)
C16_RemoveInRootLeaf ==
    [][(/\ RemoveStep
        /\ root # NilNode
        /\ isLeaf(nodes[root])
        /\ ret'.key \in KeysOf(root)) =>
          /\ ~panicked'
          /\ ret'.ok
          /\ root' = root
          /\ nodes'[root] = [nodes[root] EXCEPT
                 !.entries = SelectSeq(@, LAMBDA e : e.key # ret'.key)]
          /\ size' = size - 1]_vars

(* ---- C17 ---- *)
(* the values the leaves of the tree h rooted at r hold for the key j:     *)
(* empty when j is absent, one value when it is stored once                *)
HeldValues(h, r, j) ==
    IF r = NilNode THEN {}
    ELSE {e.value : e \in {x \in UNION {Range(h[n].entries) :
                                          n \in {m \in Subtree(h, r) : isLeaf(h[m])}} :
                           x.key = j}}

(* C17: insert(k, v) and remove(k) leave the presence and the value of     *)
(* every stored key j other than k unchanged, a split of the full root and *)
(* an upsert or remove whose key search finds included.                    *)
C17_Frame ==
    [][((InsertStep \/ RemoveStep) /\ ~panicked') =>
          \A j \in StoredKeys \ {ret'.key} :
              HeldValues(nodes', root', j) = HeldValues(nodes, root, j)]_vars

(* ---- C18 ---- *)
(* C18: split of a node with entries e[0..n) and mid = n/2 gives a left    *)
(* node with e[0..mid), a right node with e(mid..n) and promotes e[mid]    *)
(* with its value, so that left, promoted and right entries are the        *)
(* original entries, each once; the children of an internal node go        *)
(* [0..mid] to the left and [mid+1..n] to the right; and the node returned *)
(* for a root holds the median alone with the two children left and right. *)
C18_Split ==
    ret.op = "split" =>
        LET old == nodes[ret.key]
            es  == old.entries
            n   == Len(es)
            mid == n \div 2
            new == nodes[root]
        IN  /\ new.entries = <<At(es, mid)>>
            /\ Len(new.children) = 2
            /\ LET left  == nodes[At(new.children, 0)]
                   right == nodes[At(new.children, 1)]
               IN  /\ left.entries = SubSeq(es, 1, mid)
                   /\ right.entries = SubSeq(es, mid + 2, n)
                   /\ left.entries \o new.entries \o right.entries = es
                   /\ ~isLeaf(old) =>
                          /\ left.children = SubSeq(old.children, 1, mid + 1)
                          /\ right.children = SubSeq(old.children, mid + 2, n + 1)

(* ---- C19 ---- *)
(* C19: parent back-references are consistent in every reachable state:    *)
(* the parent of the root is absent, and for every node n reachable from   *)
(* the root and every child c of n, the parent of c is n.                  *)
C19_ParentRefs ==
    (~panicked /\ root # NilNode) =>
        /\ nodes[root].parent = NilNode
        /\ \A n \in Reach : \A c \in Range(nodes[n].children) : nodes[c].parent = n

(* ---- C20 ---- *)
(* the number of Error tokens the stream ts starts with *)
LeadingErrors(ts) ==
    CHOOSE n \in 0..Len(ts) :
        /\ \A i \in 1..n : ts[i] = "Error"
        /\ n = Len(ts) \/ ts[n + 1] # "Error"

(* the scanner errors reported so far *)
ScannerErrors == Len(SelectSeq(errs, LAMBDA e : e = "ErrScanner"))

(* C20: lookahead terminates on every token stream: it consumes the        *)
(* leading Error tokens, reporting one scanner error for each, and no      *)
(* other token, so that it makes at most as many passes through its loop   *)
(* as the stream has leading Error tokens; and it then returns ok=false    *)
(* with a premature-EOF or incomplete-statement error reported when the    *)
(* next token is absent, EOF or a StatementSeparator, and otherwise        *)
(* ok=true with that next token, which is no Error, EOF or                 *)
(* StatementSeparator token.                                               *)
C20_Lookahead ==
    /\ ~panicked
    /\ ScannerErrors <= LeadingErrors(toks)
    /\ pos <= LeadingErrors(toks)
    /\ lpc = "done" =>
           /\ pos = LeadingErrors(toks)
           /\ ScannerErrors = LeadingErrors(toks)
           /\ LET l == unsafeLowLevelLookahead(toks, pos)
              IN  IF ~l.hasNext \/ l.next = "EOF"
                  THEN ~lok /\ errs # <<>> /\ errs[Len(errs)] = "ErrPrematureEOF"
                  ELSE IF l.next = "StatementSeparator"
                  THEN ~lok /\ errs # <<>> /\ errs[Len(errs)] = "ErrIncompleteStatement"
                  ELSE lok /\ lnext = l.next /\ lnext \notin {"Error", "EOF", "StatementSeparator"}

(* the same statement for the streams that start with no Error token *)
C20_NoLeadingError ==
    LeadingErrors(toks) = 0 => C20_Lookahead

(* ---- C21 ---- *)
(* C21: on every token stream without an Error token that ends with an EOF *)
(* token, every call of Next that returns ok=true has consumed at least    *)
(* one token (so that repeated calls of Next eventually return ok=false).  *)
C21_Progress ==
    (nret.state = "returned" /\ nret.ok) => pos > nret.from

(* what the code does instead: the EOF token is never consumed, so no call *)
(* of Next returns ok=false                                                *)
EOFNeverConsumed ==
    /\ pos < Len(toks)
    /\ ~(nret.state = "returned" /\ ~nret.ok)

====
